---- MODULE Spec2Model ----
(***************************************************************************)
(* A model of the napari plugin image-alignment:                           *)
(*   src/src/image_alignment/_widget.py, class InteractiveImageAlignment.  *)
(*                                                                         *)
(* Two parts are modelled.                                                 *)
(*  - The placement engine _pad_image_to_position, a pure function of      *)
(*    (small_image, target_shape, translate).  PadSpec and TransSpec draw  *)
(*    its arguments from bounded sets and apply it.                        *)
(*  - The widget: its fields, its two combo boxes, its two buttons, the    *)
(*    status label and the viewer's layer list, driven by the handlers     *)
(*    _on_layer_selection_changed, _start_alignment and _apply_padding.    *)
(*    Spec is the widget's state machine.                                  *)
(*                                                                         *)
(* Conventions.                                                            *)
(*  - A shape is a sequence of extents; an index is a sequence of the same *)
(*    length with 0-based components.  An ndarray is a record              *)
(*    [shape, data] with data a function on the indices of the shape.      *)
(*  - A real number (a translation component, a world coordinate) is the   *)
(*    integer numerator n of the fraction n / Den.                         *)
(***************************************************************************)
EXTENDS Integers, Sequences, FiniteSets, TLC

VARIABLES
    base_combo,         \* self._base_image_combo.value: a layer name or None
    small_combo,        \* self._small_image_combo.value
    start_enabled,      \* self._start_alignment_btn.enabled
    apply_enabled,      \* self._apply_padding_btn.enabled
    status_label,       \* self._status_label.value
    is_aligning,        \* self._is_aligning
    overlay_layer,      \* self._overlay_layer: a layer id or None
    base_image_layer,   \* self._base_image_layer
    small_image_layer,  \* self._small_image_layer
    overlay_translate,  \* the world position of the layer self._overlay_layer
    viewer_layers,      \* the layers of the viewer that the widget added
    n_added,            \* how many layers the widget has added so far
    raised,             \* the exception the last handler raised, or None
    call,               \* the arguments of the call of _pad_image_to_position made
                        \* since the last alignment began
    frame               \* the locals of that call when it ended

vars == <<base_combo, small_combo, start_enabled, apply_enabled, status_label,
          is_aligning, overlay_layer, base_image_layer, small_image_layer,
          overlay_translate, viewer_layers, n_added, raised, call, frame>>

widget_vars == <<base_combo, small_combo, start_enabled, apply_enabled, status_label,
                 is_aligning, overlay_layer, base_image_layer, small_image_layer,
                 overlay_translate, viewer_layers, n_added, raised>>

-----------------------------------------------------------------------------
(* Bounds of the model. *)

\* Largest extent of an axis of a raster drawn by PadSpec.
MaxExt == 2

\* Largest magnitude of a whole-pixel translation component drawn by PadSpec.
MaxOff == 2

\* Denominator of the fixed-point reals: a real is n / Den.
Den == 4

\* Largest magnitude of the numerator of a translation component drawn by TransSpec.
MaxNum == 3

\* Largest number of components of a translation drawn by TransSpec.
MaxLen == 4

\* Largest number of layers the widget adds to the viewer in a run of Spec.
MaxAdded == 3

-----------------------------------------------------------------------------
(* Python and numpy primitives. *)

None == "None"

\* The frame of a call that has not returned yet, and of no call at all.
Pending == [kind |-> "Pending"]

NoFrame == [kind |-> "none"]

\* No call of _pad_image_to_position was made yet.
NoCall == [made |-> FALSE]

Max(a, b) == IF a >= b THEN a ELSE b

Min(a, b) == IF a <= b THEN a ELSE b

Abs(a) == IF a < 0 THEN -a ELSE a

\* round(x) of Python 3 on the real n / Den: to the nearest integer, a tie to
\* the even neighbour.
Round(n) ==
    LET q == n \div Den
        r == n % Den
    IN  IF 2 * r < Den THEN q
        ELSE IF 2 * r > Den THEN q + 1
        ELSE IF q % 2 = 0 THEN q ELSE q + 1

\* int(x) of Python on the real n / Den: truncation toward zero.
Trunc(n) == IF n >= 0 THEN n \div Den ELSE -((-n) \div Den)

\* The float of the integer k.
Real(k) == k * Den

\* The indices of an array of the given shape.
RECURSIVE MaxOf(_)
MaxOf(shape) == IF shape = <<>> THEN 0 ELSE Max(Head(shape), MaxOf(Tail(shape)))

Indices(shape) ==
    {p \in [1..Len(shape) -> 0..(MaxOf(shape) - 1)] :
        \A a \in 1..Len(shape) : p[a] < shape[a]}

\* np.zeros(shape)
zeros(shape) == [shape |-> shape, data |-> [p \in Indices(shape) |-> 0]]

\* The bounds slice(lo, hi).indices(n) of Python: a negative bound counts from
\* the end, and both are clipped to 0..n.
NormSlice(i, n) == IF i < 0 THEN Max(i + n, 0) ELSE Min(i, n)

\* arr[lo[1]:hi[1], ..., lo[k]:hi[k]] for k <= arr.ndim: the first k axes are
\* sliced, the others are kept whole.
GetSlice(arr, lo, hi) ==
    LET k == Len(lo)
        n == Len(arr.shape)
        b == [a \in 1..n |-> IF a <= k THEN NormSlice(lo[a], arr.shape[a]) ELSE 0]
        e == [a \in 1..n |-> IF a <= k THEN NormSlice(hi[a], arr.shape[a])
                                       ELSE arr.shape[a]]
        shape == [a \in 1..n |-> Max(0, e[a] - b[a])]
    IN  [shape |-> shape,
         data |-> [p \in Indices(shape) |-> arr.data[[a \in 1..n |-> p[a] + b[a]]]]]

\* The shape of a value with its leading axes of extent 1 dropped until it has
\* no more axes than the destination (numpy's rule for an assignment).
RECURSIVE StripLeading(_, _)
StripLeading(shape, n) ==
    IF Len(shape) > n /\ shape[1] = 1 THEN StripLeading(Tail(shape), n) ELSE shape

\* Whether a value of shape vshape can be broadcast into a destination of shape
\* dshape.
Broadcastable(vshape, dshape) ==
    LET v == StripLeading(vshape, Len(dshape))
        d == Len(dshape) - Len(v)
    IN  /\ d >= 0
        /\ \A a \in 1..Len(v) : v[a] = dshape[a + d] \/ v[a] = 1

\* The shape of the destination arr[lo[1]:hi[1], ...].
SliceShape(arr, lo, hi) ==
    [a \in 1..Len(arr.shape) |->
        Max(0, NormSlice(hi[a], arr.shape[a]) - NormSlice(lo[a], arr.shape[a]))]

\* Whether arr[lo[1]:hi[1], ...] = value succeeds; numpy raises ValueError
\* when value cannot be broadcast into the destination.
CanSetSlice(arr, lo, hi, value) == Broadcastable(value.shape, SliceShape(arr, lo, hi))

\* arr[lo[1]:hi[1], ...] = value, when it succeeds: the new array.
SetSlice(arr, lo, hi, value) ==
    LET n == Len(arr.shape)
        b == [a \in 1..n |-> NormSlice(lo[a], arr.shape[a])]
        e == [a \in 1..n |-> NormSlice(hi[a], arr.shape[a])]
        nv == Len(value.shape)
        v == StripLeading(value.shape, n)
        s == nv - Len(v)            \* leading axes of value dropped
        d == n - Len(v)             \* leading axes of the destination repeated
        inside(p) == \A a \in 1..n : b[a] <= p[a] /\ p[a] < e[a]
        from(p) == [a \in 1..nv |->
                        IF a <= s THEN 0
                        ELSE IF v[a - s] = 1 THEN 0
                        ELSE p[a - s + d] - b[a - s + d]]
    IN  [shape |-> arr.shape,
         data |-> [p \in Indices(arr.shape) |->
                       IF inside(p) THEN value.data[from(p)] ELSE arr.data[p]]]

-----------------------------------------------------------------------------
(* _pad_image_to_position *)

\* int(round(translate[i])): a translation component to its pixel offset.
PixelOffset_Trunc(x) == Trunc(x)

PixelOffset(x) == Round(x)

\* The offsets with a short translation of a 3D target applied to the leading
\* axes.
Offsets_ShortLeading(target_shape, translate) ==
    IF Len(target_shape) = 2 THEN
        IF Len(translate) >= 2
        THEN <<PixelOffset(translate[1]), PixelOffset(translate[2])>>
        ELSE <<0, 0>>
    ELSE
        IF Len(translate) >= 3
        THEN <<PixelOffset(translate[1]), PixelOffset(translate[2]),
               PixelOffset(translate[3])>>
        ELSE IF Len(translate) >= 2
        THEN <<PixelOffset(translate[1]), PixelOffset(translate[2]), 0>>
        ELSE <<0, 0, 0>>

\* The offsets of lines 185-201, as a sequence over the target's axes:
\* <<offset_y, offset_x>> or <<offset_z, offset_y, offset_x>>.
Offsets(target_shape, translate) ==
    IF Len(target_shape) = 2 THEN
        IF Len(translate) >= 2
        THEN <<PixelOffset(translate[1]), PixelOffset(translate[2])>>
        ELSE <<0, 0>>
    ELSE
        IF Len(translate) >= 3
        THEN <<PixelOffset(translate[1]), PixelOffset(translate[2]),
               PixelOffset(translate[3])>>
        ELSE IF Len(translate) >= 2
        THEN <<0, PixelOffset(translate[1]), PixelOffset(translate[2])>>
        ELSE <<0, 0, 0>>

\* start = max(0, offset)
DstStart(offset) == Max(0, offset)

\* The end without the clamp to the target's extent.
DstEnd_NoClamp(target_extent, offset, extent) == offset + extent

\* end = min(target_shape[a], offset + extent)
DstEnd(target_extent, offset, extent) == Min(target_extent, offset + extent)

\* The source read from its origin whatever the offset.
SrcStart_Zero(offset) == 0

\* src_start = max(0, -offset)
SrcStart(offset) == Max(0, -offset)

\* src_end = src_start + (end - start)
SrcEnd(src_start, end, start) == src_start + (end - start)

\* The locals of a call when it ends: kind is "ok" when it returns padded and
\* the exception when it raises; copied tells whether the guard of the copy held
\* (the assignment was executed).
Frame(kind, padded, offsets, copied, dst_start, dst_end, src_start, src_end) ==
    [kind |-> kind, padded |-> padded, offsets |-> offsets, copied |-> copied,
     dst_start |-> dst_start, dst_end |-> dst_end,
     src_start |-> src_start, src_end |-> src_end]

\* The canvas allocated with the source's shape.
NewPadded_SourceShape(small_image, target_shape) == zeros(small_image.shape)

\* The canvas allocated with ones.
NewPadded_Ones(small_image, target_shape) ==
    [shape |-> target_shape, data |-> [p \in Indices(target_shape) |-> 1]]

\* np.zeros(target_shape, dtype=small_image.dtype)
NewPadded(small_image, target_shape) == zeros(target_shape)

\* The branch len(target_shape) == 2, lines 213-237.
Place2D(small_image, target_shape, offsets) ==
    LET offset_y == offsets[1]
        offset_x == offsets[2]
        padded == NewPadded(small_image, target_shape)
        h == small_image.shape[1]
        w == small_image.shape[2]
        start_y == DstStart(offset_y)
        start_x == DstStart(offset_x)
        end_y == DstEnd(target_shape[1], offset_y, h)
        end_x == DstEnd(target_shape[2], offset_x, w)
        src_start_y == SrcStart(offset_y)
        src_start_x == SrcStart(offset_x)
        src_end_y == SrcEnd(src_start_y, end_y, start_y)
        src_end_x == SrcEnd(src_start_x, end_x, start_x)
        value == GetSlice(small_image, <<src_start_y, src_start_x>>,
                          <<src_end_y, src_end_x>>)
    IN  IF end_y > start_y /\ end_x > start_x
        THEN IF CanSetSlice(padded, <<start_y, start_x>>, <<end_y, end_x>>, value)
             THEN Frame("ok", SetSlice(padded, <<start_y, start_x>>, <<end_y, end_x>>, value),
                        offsets, TRUE, <<start_y, start_x>>, <<end_y, end_x>>,
                        <<src_start_y, src_start_x>>, <<src_end_y, src_end_x>>)
             ELSE Frame("ValueError", padded,
                        offsets, TRUE, <<start_y, start_x>>, <<end_y, end_x>>,
                        <<src_start_y, src_start_x>>, <<src_end_y, src_end_x>>)
        ELSE Frame("ok", padded, offsets, FALSE, <<start_y, start_x>>, <<end_y, end_x>>,
                   <<src_start_y, src_start_x>>, <<src_end_y, src_end_x>>)

\* The else branch (the 3D case), lines 239-258.
Place3D(small_image, target_shape, offsets) ==
    IF Len(small_image.shape) < 3
    THEN \* d, h, w = small_image.shape[:3] with fewer than three values
         Frame("ValueError", NewPadded(small_image, target_shape), offsets, FALSE,
               <<>>, <<>>, <<>>, <<>>)
    ELSE
    LET offset_z == offsets[1]
        offset_y == offsets[2]
        offset_x == offsets[3]
        padded == NewPadded(small_image, target_shape)
        d == small_image.shape[1]
        h == small_image.shape[2]
        w == small_image.shape[3]
        start_z == DstStart(offset_z)
        start_y == DstStart(offset_y)
        start_x == DstStart(offset_x)
        end_z == DstEnd(target_shape[1], offset_z, d)
        end_y == DstEnd(target_shape[2], offset_y, h)
        end_x == DstEnd(target_shape[3], offset_x, w)
        src_start_z == SrcStart(offset_z)
        src_start_y == SrcStart(offset_y)
        src_start_x == SrcStart(offset_x)
        src_end_z == SrcEnd(src_start_z, end_z, start_z)
        src_end_y == SrcEnd(src_start_y, end_y, start_y)
        src_end_x == SrcEnd(src_start_x, end_x, start_x)
        lo == <<start_z, start_y, start_x>>
        hi == <<end_z, end_y, end_x>>
        src_lo == <<src_start_z, src_start_y, src_start_x>>
        src_hi == <<src_end_z, src_end_y, src_end_x>>
        value == GetSlice(small_image, src_lo, src_hi)
    IN  IF end_z > start_z /\ end_y > start_y /\ end_x > start_x
        THEN IF CanSetSlice(padded, lo, hi, value)
             THEN Frame("ok", SetSlice(padded, lo, hi, value), offsets, TRUE,
                        lo, hi, src_lo, src_hi)
             ELSE Frame("ValueError", padded, offsets, TRUE, lo, hi, src_lo, src_hi)
        ELSE Frame("ok", padded, offsets, FALSE, lo, hi, src_lo, src_hi)

\* The call, as the record of its locals when it ends.
pad_image_to_position(small_image, target_shape, translate) ==
    IF Len(target_shape) = 2
    THEN Place2D(small_image, target_shape, Offsets(target_shape, translate))
    ELSE Place3D(small_image, target_shape, Offsets(target_shape, translate))

\* The arguments of a call of _pad_image_to_position.
Call(small_image, target_shape, translate) ==
    [made |-> TRUE, small_image |-> small_image, target_shape |-> target_shape,
     translate |-> translate]

-----------------------------------------------------------------------------
(* The widget after __init__. *)

WidgetInit ==
    /\ base_combo = None
    /\ small_combo = None
    /\ start_enabled = TRUE
    /\ apply_enabled = FALSE
    /\ status_label = "Select base and small images, then click 'Start Interactive Alignment'"
    /\ is_aligning = FALSE
    /\ overlay_layer = None
    /\ base_image_layer = None
    /\ small_image_layer = None
    /\ overlay_translate = <<>>
    /\ viewer_layers = {}
    /\ n_added = 0
    /\ raised = None

-----------------------------------------------------------------------------
(* The viewer's images and the widget's handlers. *)

\* The image layers the user loaded into the viewer: a 2D and a 3D canvas, and
\* a 2D and a 3D image to place.
Layers == {"base2d", "small2d", "base3d", "small3d"}

\* layer.data.shape
LayerShape(layer) ==
    CASE layer = "base2d" -> <<4, 3>>
      [] layer = "small2d" -> <<2, 1>>
      [] layer = "base3d" -> <<2, 4, 3>>
      [] layer = "small3d" -> <<2, 2, 1>>

\* layer.data
LayerData(layer) ==
    [shape |-> LayerShape(layer),
     data |-> [p \in Indices(LayerShape(layer)) |-> 1 + p[1] + p[Len(p)]]]

\* The world position of a layer the user loaded: it was never moved.
LayerTranslate(layer) == [a \in 1..Len(LayerShape(layer)) |-> Real(0)]

\* The positions the user drags the overlay to, per axis: a pixel and a
\* fraction up, not at all, a fraction of a pixel down.
DragValues == {-(Den + 1), 0, 1}

\* _on_layer_selection_changed, lines 60-70, for the combo values given.
OnLayerSelectionChanged(base, small) ==
    /\ start_enabled' = (base # None /\ small # None)
    /\ status_label' = IF base # None /\ small # None
                       THEN "Ready to start alignment"
                       ELSE "Select both base and small images"
    /\ raised' = None

\* The user picks another entry of the base image combo box; its changed signal
\* calls _on_layer_selection_changed.
SelectBase ==
    \E layer \in Layers \cup {None} :
        /\ layer # base_combo
        /\ base_combo' = layer
        /\ OnLayerSelectionChanged(layer, small_combo)
        /\ UNCHANGED <<small_combo, apply_enabled, is_aligning, overlay_layer,
                       base_image_layer, small_image_layer, overlay_translate,
                       viewer_layers, n_added, call, frame>>

\* The same for the small image combo box.
SelectSmall ==
    \E layer \in Layers \cup {None} :
        /\ layer # small_combo
        /\ small_combo' = layer
        /\ OnLayerSelectionChanged(base_combo, layer)
        /\ UNCHANGED <<base_combo, apply_enabled, is_aligning, overlay_layer,
                       base_image_layer, small_image_layer, overlay_translate,
                       viewer_layers, n_added, call, frame>>

\* The identity of the k-th layer object the widget creates.
LayerId(k) == "layer" \o ToString(k)

\* viewer.layers.remove(layer) inside try/except ValueError: the layer list
\* without the layer, unchanged when the layer is not in it.
RemoveLayer(layers, id) == {l \in layers : l.id # id}

\* The overlay added without the previous one being removed.
CreateOverlayLayer_NoRemove(small) ==
    viewer_layers
        \cup {[id |-> LayerId(n_added + 1), kind |-> "overlay", name |-> small \o "_overlay"]}

\* _create_overlay_layer, lines 93-115, for the small image given: the layers of
\* the viewer afterwards.
CreateOverlayLayer(small) ==
    (IF overlay_layer # None THEN RemoveLayer(viewer_layers, overlay_layer)
                             ELSE viewer_layers)
        \cup {[id |-> LayerId(n_added + 1), kind |-> "overlay", name |-> small \o "_overlay"]}

\* The early return of _start_alignment, lines 77-79.
StartRefused ==
    /\ status_label' = "Please select both images"
    /\ UNCHANGED <<start_enabled, apply_enabled, is_aligning, overlay_layer,
                   base_image_layer, small_image_layer, overlay_translate,
                   viewer_layers, n_added, call, frame>>

\* _start_alignment past its early return, lines 81-91.
StartBody ==
    /\ n_added < MaxAdded
    /\ base_image_layer' = base_combo
    /\ small_image_layer' = small_combo
    /\ viewer_layers' = CreateOverlayLayer(small_combo)
    /\ overlay_layer' = LayerId(n_added + 1)
    /\ overlay_translate' = [a \in 1..Len(LayerShape(small_combo)) |-> Real(0)]
    /\ n_added' = n_added + 1
    /\ is_aligning' = TRUE
    /\ start_enabled' = FALSE
    /\ apply_enabled' = TRUE
    /\ status_label' = "Drag the overlay image to position it. Click 'Apply Padding' when ready."
    /\ call' = NoCall
    /\ frame' = NoFrame

\* The handler without its early return.
StartAlignment_NoCheck ==
    /\ start_enabled
    /\ raised' = None
    /\ IF small_combo = None
       THEN StartRefused
       ELSE StartBody
    /\ UNCHANGED <<base_combo, small_combo>>

\* A click of the start button, which is enabled: _start_alignment, lines 72-91.
StartAlignment ==
    /\ start_enabled
    /\ raised' = None
    /\ IF base_combo = None \/ small_combo = None
       THEN StartRefused
       ELSE StartBody
    /\ UNCHANGED <<base_combo, small_combo>>

\* The user drags the overlay layer, which is in the viewer, to another
\* position.
DragOverlay ==
    /\ overlay_layer # None
    /\ \E l \in viewer_layers : l.id = overlay_layer
    /\ \E pos \in [1..Len(overlay_translate) -> DragValues] :
        /\ pos # overlay_translate
        /\ overlay_translate' = pos
    /\ UNCHANGED <<base_combo, small_combo, start_enabled, apply_enabled, status_label,
                   is_aligning, overlay_layer, base_image_layer, small_image_layer,
                   viewer_layers, n_added, raised, call, frame>>

\* The user deletes the overlay layer from the viewer's layer list.
DeleteOverlay ==
    /\ overlay_layer # None
    /\ \E l \in viewer_layers : l.id = overlay_layer
    /\ viewer_layers' = RemoveLayer(viewer_layers, overlay_layer)
    /\ UNCHANGED <<base_combo, small_combo, start_enabled, apply_enabled, status_label,
                   is_aligning, overlay_layer, base_image_layer, small_image_layer,
                   overlay_translate, n_added, raised, call, frame>>

\* relative_world_pos = overlay_world_pos - base_world_pos, line 136, for two
\* vectors of the same length.
RelativeWorldPos == 
    [i \in 1..Len(overlay_translate) |->
        overlay_translate[i] - LayerTranslate(base_image_layer)[i]]

\* relative_translate of line 137: each component rounded, as a float again
\* where _pad_image_to_position reads it.
RelativeTranslate == [i \in 1..Len(overlay_translate) |-> Round(RelativeWorldPos[i])]

\* The test of line 143: the overlay was not moved.
NotMoved == \A i \in 1..Len(overlay_translate) : 2 * Abs(RelativeTranslate[i]) < 1

\* The centre placement of lines 144-146.
CenterTranslate(base_shape, small_shape) ==
    <<(base_shape[1] - small_shape[1]) \div 2, (base_shape[2] - small_shape[2]) \div 2>>

\* The translation _apply_padding hands to _pad_image_to_position.
ApplyTranslate ==
    LET t == IF NotMoved
             THEN CenterTranslate(LayerShape(base_image_layer),
                                  LayerShape(small_image_layer))
             ELSE RelativeTranslate
    IN  [i \in 1..Len(t) |-> Real(t[i])]

\* The early return of _apply_padding, lines 119-121.
ApplyRefused ==
    /\ status_label' = "Error: Missing layers"
    /\ raised' = None
    /\ UNCHANGED <<start_enabled, apply_enabled, is_aligning, overlay_layer,
                   viewer_layers, n_added, call, frame>>

\* _apply_padding raises: the handler ends where it is, nothing was assigned yet.
ApplyRaises(error) ==
    /\ raised' = error
    /\ UNCHANGED <<start_enabled, apply_enabled, status_label, is_aligning,
                   overlay_layer, viewer_layers, n_added, call, frame>>

\* _apply_padding from line 149 on, _pad_image_to_position having returned.
ApplyCompletes(result) ==
    /\ n_added < MaxAdded
    /\ frame' = result
    /\ viewer_layers' = RemoveLayer(viewer_layers, overlay_layer)
            \cup {[id |-> LayerId(n_added + 1), kind |-> "aligned",
                   name |-> small_image_layer \o "_aligned"]}
    /\ n_added' = n_added + 1
    /\ overlay_layer' = None
    /\ is_aligning' = FALSE
    /\ start_enabled' = TRUE
    /\ apply_enabled' = FALSE
    /\ status_label' = "Alignment complete! Created layer: " \o small_image_layer \o "_aligned"
    /\ raised' = None

\* A click of the apply button, which is enabled: _apply_padding, lines 117-174.
ApplyPadding ==
    /\ apply_enabled
    /\ IF overlay_layer = None \/ base_image_layer = None
       THEN ApplyRefused
       ELSE IF Len(overlay_translate) # Len(LayerTranslate(base_image_layer))
       THEN \* the subtraction of line 136 on vectors of different lengths
            ApplyRaises("ValueError")
       ELSE LET result == pad_image_to_position(LayerData(small_image_layer),
                                                LayerShape(base_image_layer),
                                                ApplyTranslate)
            IN  /\ call' = Call(LayerData(small_image_layer),
                                LayerShape(base_image_layer), ApplyTranslate)
                /\ IF result.kind = "ok"
                   THEN ApplyCompletes(result)
                   ELSE /\ frame' = result
                        /\ raised' = result.kind
                        /\ UNCHANGED <<start_enabled, apply_enabled, status_label,
                                       is_aligning, overlay_layer, viewer_layers, n_added>>
    /\ UNCHANGED <<base_combo, small_combo, base_image_layer, small_image_layer,
                   overlay_translate>>

Init ==
    /\ WidgetInit
    /\ call = NoCall
    /\ frame = NoFrame

Next ==
    \/ SelectBase
    \/ SelectSmall
    \/ StartAlignment
    \/ DragOverlay
    \/ DeleteOverlay
    \/ ApplyPadding

Spec == Init /\ [][Next]_vars

-----------------------------------------------------------------------------
(* The placement engine on its own. *)

\* The shapes of rank n with extents up to MaxExt.
Shapes(n) == [1..n -> 0..MaxExt]

\* The shapes of the sources drawn: every 2D shape; the 3D shapes with the two
\* largest extents on each axis.
SourceShapes(n) ==
    IF n = 2 THEN Shapes(2) ELSE [1..3 -> Max(0, MaxExt - 1)..MaxExt]

\* A source raster of a shape: element p holds 1 + its row-major position, so
\* that the elements are pairwise different and none is zero.
RECURSIVE Linear(_, _, _)
Linear(shape, p, a) ==
    IF a = 0 THEN 0 ELSE Linear(shape, p, a - 1) * shape[a] + p[a]

Raster(shape) ==
    [shape |-> shape, data |-> [p \in Indices(shape) |-> 1 + Linear(shape, p, Len(shape))]]

\* Whole-pixel translations with one component per axis of the target.
WholeTranslations(n) == {[a \in 1..n |-> Real(o[a])] : o \in [1..n -> (-MaxOff)..MaxOff]}

\* Whole-pixel translations with the same component on every axis.
DiagonalTranslations(n) == {[a \in 1..n |-> Real(o)] : o \in (-MaxOff)..MaxOff}

\* Source and target of the same rank with every whole-pixel translation, and
\* source and target of different ranks with the diagonal translations.
PadInit ==
    /\ WidgetInit
    /\ \E ns \in {2, 3}, nt \in {2, 3} :
         \E s \in SourceShapes(ns), t \in Shapes(nt) :
            \E tr \in IF ns = nt THEN WholeTranslations(nt) ELSE DiagonalTranslations(nt) :
                call = Call(Raster(s), t, tr)
    /\ frame = Pending

\* One call of _pad_image_to_position with the arguments drawn.
Pad ==
    /\ call.made
    /\ frame = Pending
    /\ frame' = pad_image_to_position(call.small_image, call.target_shape, call.translate)
    /\ UNCHANGED <<call, widget_vars>>

PadNext == Pad

PadSpec == PadInit /\ [][PadNext]_vars

\* Translations of every length up to MaxLen with fractional components.
Translations ==
    UNION {[1..k -> (-MaxNum)..MaxNum] : k \in 0..MaxLen}

\* A unit source and a target of the same rank, 2D or 3D, with every
\* translation, whatever its length.
TransInit ==
    /\ WidgetInit
    /\ \E n \in {2, 3}, tr \in Translations :
            call = Call(Raster([a \in 1..n |-> 1]), [a \in 1..n |-> MaxExt], tr)
    /\ frame = Pending

TransSpec == TransInit /\ [][PadNext]_vars

-----------------------------------------------------------------------------
(* Properties of the placement engine, checked under PadSpec. *)

\* The call drawn has ended.
Done == call.made /\ frame.kind # "Pending"

SameRank == Len(call.small_image.shape) = Len(call.target_shape)

\* The whole-pixel offset vector of the translation drawn by PadSpec.
WholeOffset == [a \in 1..Len(call.translate) |-> call.translate[a] \div Den]

\* The placement rectangle of the specification on axis a, from the arguments.
RectStart(a) == Max(0, WholeOffset[a])

RectEnd(a) == Min(call.target_shape[a], WholeOffset[a] + call.small_image.shape[a])

Axes == 1..Len(call.target_shape)

InRect(p) == \A a \in Axes : RectStart(a) <= p[a] /\ p[a] < RectEnd(a)

Overlap == \A a \in Axes : RectEnd(a) > RectStart(a)

\* C1: whenever _pad_image_to_position returns a raster, for a 2D or a 3D
\* source, any target shape and any translation, the raster's shape is exactly
\* target_shape (and its elements are indexed by exactly the indices of that
\* shape).
C1_ShapeIsTargetShape ==
    (Done /\ frame.kind = "ok") =>
        /\ frame.padded.shape = call.target_shape
        /\ DOMAIN frame.padded.data = Indices(call.target_shape)

\* A 3D call with a negative offset that returned a raster of another shape
\* than the source's.
C1_Witness ==
    /\ Done /\ frame.kind = "ok" /\ frame.copied
    /\ Len(call.target_shape) = 3
    /\ call.target_shape # call.small_image.shape
    /\ \E a \in Axes : frame.offsets[a] < 0

\* C2: for a source and a target of the same rank, when the rectangle
\* [max(0, o_a), min(t_a, o_a + s_a)) is not empty on any axis, the call returns
\* and every output element p inside the rectangle equals source[p - o].
C2_CopiedVerbatim ==
    (Done /\ SameRank /\ Overlap) =>
        /\ frame.kind = "ok"
        /\ \A p \in Indices(call.target_shape) :
              InRect(p) =>
                frame.padded.data[p] =
                    call.small_image.data[[a \in Axes |-> p[a] - WholeOffset[a]]]

\* A 3D call whose source is cropped at its origin on one axis and at its far
\* end on another.
C2_Witness ==
    /\ Done /\ SameRank /\ Overlap /\ frame.kind = "ok"
    /\ Len(call.target_shape) = 3
    /\ \E a \in Axes : WholeOffset[a] < 0
    /\ \E a \in Axes : WholeOffset[a] > 0
                        /\ WholeOffset[a] + call.small_image.shape[a] > call.target_shape[a]

\* C3: for a source and a target of the same rank the call returns; every
\* output element outside the placement rectangle is zero; and when the
\* rectangle is empty on some axis no copy occurs and the whole output is zero.
C3_ZeroOutside ==
    (Done /\ SameRank) =>
        /\ frame.kind = "ok"
        /\ \A p \in Indices(call.target_shape) :
              ~InRect(p) => frame.padded.data[p] = 0
        /\ ~Overlap =>
              /\ ~frame.copied
              /\ \A p \in Indices(call.target_shape) : frame.padded.data[p] = 0

\* A call with a non-empty source and target whose offset equals the target's
\* extent on one axis: nothing is copied.
C3_Witness ==
    /\ Done /\ SameRank /\ ~Overlap /\ frame.kind = "ok"
    /\ \A a \in Axes : call.target_shape[a] > 0 /\ call.small_image.shape[a] > 0
    /\ \E a \in Axes : WholeOffset[a] = call.target_shape[a]

\* C4: whenever the copy is executed, on each axis the destination range lies
\* in the target, the source range lies in the source, neither is empty and
\* both have the same length.
C4_CopyInBounds ==
    (Done /\ frame.copied) =>
        \A a \in 1..Len(frame.dst_start) :
            /\ 0 <= frame.dst_start[a]
            /\ frame.dst_start[a] < frame.dst_end[a]
            /\ frame.dst_end[a] <= call.target_shape[a]
            /\ 0 <= frame.src_start[a]
            /\ frame.src_start[a] < frame.src_end[a]
            /\ frame.src_end[a] <= call.small_image.shape[a]
            /\ frame.src_end[a] - frame.src_start[a] = frame.dst_end[a] - frame.dst_start[a]

\* A 2D copy clipped at the target's far edge on one axis and at the source's
\* origin on the other.
C4_Witness ==
    /\ Done /\ frame.copied /\ frame.kind = "ok"
    /\ Len(call.target_shape) = 2
    /\ \E a \in Axes : frame.src_start[a] > 0
    /\ \E a \in Axes : frame.dst_end[a] = call.target_shape[a]
                        /\ frame.src_end[a] < call.small_image.shape[a]

\* C8 as claimed: a call whose source and target differ in rank ends by
\* signalling InvalidRankError.
C8_RankMismatchSignalsInvalidRank ==
    (Done /\ ~SameRank) => frame.kind = "InvalidRankError"


-----------------------------------------------------------------------------
(* Properties of the offsets, checked under TransSpec. *)

Rank == Len(call.target_shape)

NComponents == Len(call.translate)

\* The real n / Den is not halfway between two integers.
NotATie(n) == 2 * (n % Den) # Den

\* The integer k is the integer nearest to the real n / Den.
Nearest(k, n) == 2 * Abs(k * Den - n) < Den

\* C5 as claimed: a translation with more components than the target has axes
\* gives the offsets of its last Rank components, in order.
C5_LongTranslationUsesTrailing ==
    (Done /\ NComponents > Rank) =>
        \A a \in 1..Rank :
            frame.offsets[a] = Round(call.translate[NComponents - Rank + a])

ComponentsRead ==
    IF Rank = 2 THEN (IF NComponents >= 2 THEN {<<1, 1>>, <<2, 2>>} ELSE {})
    ELSE IF NComponents >= 3 THEN {<<1, 1>>, <<2, 2>>, <<3, 3>>}
    ELSE IF NComponents >= 2 THEN {<<1, 2>>, <<2, 3>>}
    ELSE {}

-----------------------------------------------------------------------------
(* Properties of the widget, checked under Spec. *)

BothSelected == base_combo # None /\ small_combo # None

\* A step in which an apply event ran to its end: the only step that leaves the
\* Aligning state.
ApplyCompleted == is_aligning /\ ~is_aligning'

\* C9 as claimed: when apply is pressed and the overlay's position relative to
\* the base rounds to 0 on every axis, the offsets the placement engine uses are
\* (target_shape[a] - source_shape[a]) // 2 on every axis a, for 2D and for 3D
\* rasters.
C9_NoDragCentresEveryAxis ==
    [][(ApplyCompleted /\ NotMoved) =>
            \A a \in 1..Len(LayerShape(base_image_layer)) :
                frame'.offsets[a] =
                    (LayerShape(base_image_layer)[a] - LayerShape(small_image_layer)[a]) \div 2
      ]_vars

\* C10: the widget enters the Aligning state only by a start event that finds
\* both images selected, and then the overlay exists and the apply button is
\* enabled; a start event that finds a selection missing leaves _is_aligning
\* false, creates no overlay and leaves the apply button disabled; a selection
\* made in Idle that leaves both images selected leaves the start button
\* enabled and the apply button disabled.
C10_AligningOnlyByStart ==
    [][/\ (~is_aligning /\ is_aligning') =>
            /\ StartAlignment
            /\ BothSelected
            /\ overlay_layer' # None
            /\ \E l \in viewer_layers' : l.id = overlay_layer' /\ l.kind = "overlay"
            /\ apply_enabled'
       /\ (StartAlignment /\ ~BothSelected) =>
            /\ ~is_aligning'
            /\ overlay_layer' = None
            /\ viewer_layers' = viewer_layers
            /\ ~apply_enabled'
       /\ (/\ ~is_aligning
           /\ <<base_combo, small_combo>>' # <<base_combo, small_combo>>
           /\ base_combo' # None /\ small_combo' # None) =>
            /\ start_enabled'
            /\ ~apply_enabled'
      ]_vars

\* The Aligning state entered by a start event, with both images selected.
C10_Witness ==
    /\ is_aligning /\ BothSelected /\ overlay_layer # None /\ apply_enabled
    /\ ~start_enabled
    /\ status_label = "Drag the overlay image to position it. Click 'Apply Padding' when ready."

\* The layers of a kind among the given layers.
LayersOfKind(layers, kind) == {l \in layers : l.kind = kind}

\* C11 as claimed: every apply event in the Aligning state invokes the placement
\* engine, adds exactly one aligned layer to the viewer, removes the overlay
\* layer from the viewer and leaves the widget Idle (_is_aligning false,
\* _overlay_layer None, apply button disabled, start button enabled); an apply
\* event with no overlay or no base layer changes nothing but the status label.
C11_ApplyLeavesIdle ==
    [][/\ (is_aligning /\ ApplyPadding) =>
            /\ call'.made
            /\ frame'.kind = "ok"
            /\ \E l \in viewer_layers' :
                  /\ l \notin viewer_layers
                  /\ LayersOfKind(viewer_layers', "aligned") =
                        LayersOfKind(viewer_layers, "aligned") \cup {l}
            /\ LayersOfKind(viewer_layers', "overlay") = {}
            /\ ~is_aligning'
            /\ overlay_layer' = None
            /\ ~apply_enabled'
            /\ start_enabled'
       /\ ((overlay_layer = None \/ base_image_layer = None) /\ ApplyPadding) =>
            UNCHANGED <<base_combo, small_combo, start_enabled, apply_enabled,
                        is_aligning, overlay_layer, base_image_layer,
                        small_image_layer, overlay_translate, viewer_layers,
                        n_added, call, frame>>
      ]_vars

\* C12: after every handler the three indicators of the Aligning state agree:
\* _is_aligning is true exactly when _overlay_layer is not None and exactly when
\* the apply button is enabled; and the viewer holds at most one overlay layer
\* that the widget created.
C12_AligningIndicatorsAgree ==
    /\ is_aligning <=> (overlay_layer # None)
    /\ is_aligning <=> apply_enabled
    /\ Cardinality(LayersOfKind(viewer_layers, "overlay")) <= 1

\* The alignment was started twice without an apply in between: the viewer
\* holds the second overlay only.
C12_Witness ==
    /\ is_aligning /\ overlay_layer # None /\ apply_enabled
    /\ n_added >= 2
    /\ LayersOfKind(viewer_layers, "aligned") = {}
    /\ \E l \in viewer_layers : l.id = overlay_layer /\ viewer_layers = {l}

\* C13 as claimed: the start button and the apply button are never enabled
\* together, and the start button is disabled whenever _is_aligning is true.
C13_StartDisabledWhileAligning ==
    /\ ~(start_enabled /\ apply_enabled)
    /\ is_aligning => ~start_enabled

====
